---- MODULE Spec2Model ----
(***************************************************************************)
(* Client-side persistence of the diabetes-guideline-assistant frontend:   *)
(* the two capped localStorage logs of app/lib/history.ts, the display     *)
(* join of the history page (mergeFeedback) and the sessionStorage         *)
(* hand-off of the query page (clientAction / readFromSession).            *)
(*                                                                         *)
(* Encoding of JavaScript values:                                          *)
(*   - a storage slot is a record [kind, val]; kind "absent" is a missing  *)
(*     key (getItem returns null), kind "array"/"json" is the text         *)
(*     JSON.stringify produced for val, the other kinds are texts some     *)
(*     other writer left there;                                            *)
(*   - ids are the naturals 1, 2, ... handed out by crypto.randomUUID();   *)
(*     NoId is an undefined / null id;                                     *)
(*   - timestamps are readings of a clock; NoTime is undefined;            *)
(*   - "" is an undefined / empty string (both are falsy in the code).     *)
(***************************************************************************)
EXTENDS Integers, Sequences, FiniteSets, TLC

VARIABLES
  historyRaw,    \* localStorage["dga.history.v1"]
  feedbackRaw,   \* localStorage["dga.feedback.v1"]
  quotaFull,     \* environment: localStorage.setItem throws QuotaExceededError
  nextId,        \* next value crypto.randomUUID() returns
  clock,         \* next value new Date().toISOString() returns
  lastCall,      \* the last call of the persistence module: arguments and outcome
  hpOpen,        \* the history page is mounted
  view,          \* HistoryPage state `items` (the merged view)
  tabPc,         \* per tab: "idle", or the call it is inside, between its load and its save
  tabLocal,      \* per tab: the local array of that call, ready to be saved
  savedIds,      \* history variable: ids of the entries whose save has run
  overlapped     \* history variable: ids of the entries whose call overlapped another tab's

tabVars == <<tabPc, tabLocal, savedIds, overlapped>>

VARIABLES
  resultSlot,    \* sessionStorage["lastQueryResult"]
  prefillSlot,   \* sessionStorage["prefillQuestion"]; "" when the key is missing
  qpOpen,        \* the query page is mounted
  nav,           \* useNavigation().state
  navSub,        \* the submission the navigation waits for; 0 when none
  subs,          \* number of submissions so far
  inflight,      \* the clientAction calls that have not returned
  page,          \* QueryPage state
  pubLog,        \* history variable: every outcome written to the result slot, in order
  slotPub,       \* history variable: index in pubLog of the outcome in the slot; 0 when none
  consumed,      \* history variable: indices in pubLog of the outcomes readFromSession took
  lost           \* history variable: indices in pubLog of the outcomes overwritten unread

pageVars == <<resultSlot, prefillSlot, qpOpen, nav, navSub, subs, inflight, page,
              pubLog, slotPub, consumed, lost>>

vars == <<historyRaw, feedbackRaw, quotaFull, nextId, clock, lastCall, hpOpen, view,
          tabVars, pageVars>>

----------------------------------------------------------------------------
(* Bounds of the model *)

MaxIds == 2
MaxCapAdds == 52
MaxMergeIds == 3
MaxRecords == 2
NumTabs == 2
MaxTabIds == 2
MaxSubmits == 2
MaxRemoveIds == 3
MaxLogIds == 2
MaxAddIds == 2
MaxJudgeIds == 3
MaxJoinIds == 3

(* Program constants *)

HISTORY_CAP == 50
FEEDBACK_CAP == 100

NoId == 0
NoTime == 0
NoCount == -1

Questions == {"Q1", "Q2"}

Tabs == 1..NumTabs

----------------------------------------------------------------------------
(* Sequence helpers (Array.prototype) *)

Min(a, b) == IF a <= b THEN a ELSE b

\* items.slice(0, n)
Slice(items, n) == SubSeq(items, 1, Min(n, Len(items)))

\* the array replaced by the new element
UnshiftDropsRest(items, x) == <<x>>

\* items.unshift(x)
Unshift(items, x) == <<x>> \o items

\* the array cut at the first match
FilterCutsAtId(items, id) ==
  IF \E i \in 1..Len(items) : items[i].id = id
  THEN SubSeq(items, 1, (CHOOSE i \in 1..Len(items) : items[i].id = id) - 1)
  ELSE items

\* items.filter((x) => x.id !== id)
RECURSIVE FilterNotId(_, _)
FilterNotId(items, id) ==
  IF items = <<>> THEN <<>>
  ELSE IF Head(items).id # id
       THEN <<Head(items)>> \o FilterNotId(Tail(items), id)
       ELSE FilterNotId(Tail(items), id)

\* items.findIndex((x) => x.id === id); 1-based, 0 is the code's -1
FindIndexById(items, id) ==
  IF \E i \in 1..Len(items) : items[i].id = id
  THEN CHOOSE i \in 1..Len(items) :
         /\ items[i].id = id
         /\ \A j \in 1..(i - 1) : items[j].id # id
  ELSE 0

\* items.findIndex((x) => x.question === q); 1-based, 0 is the code's -1
FindIndexByQuestion(items, q) ==
  IF \E i \in 1..Len(items) : items[i].question = q
  THEN CHOOSE i \in 1..Len(items) :
         /\ items[i].question = q
         /\ \A j \in 1..(i - 1) : items[j].question # q
  ELSE 0

----------------------------------------------------------------------------
(* localStorage *)

Absent == [kind |-> "absent", val |-> <<>>]

\* the optional properties of the stored objects, each with the value that
\* stands for undefined in this model
Undefined ==
  [evidenceCount |-> NoCount, feedbackThumbs |-> "", feedbackComment |-> "",
   feedbackAt |-> NoTime, historyId |-> NoId, comment |-> ""]

HistoryFields ==
  {"id", "createdAt", "question", "categories", "answer", "evidence", "evidenceCount",
   "outOfScope", "feedbackThumbs", "feedbackComment", "feedbackAt"}

FeedbackFields == {"id", "historyId", "question", "thumbs", "comment", "timestamp"}

\* JSON.stringify of an object: a property whose value is undefined is left out
StringifyObject(o) ==
  [k \in {f \in DOMAIN o : f \in DOMAIN Undefined => o[f] # Undefined[f]} |-> o[k]]

\* the properties of a parsed object as the code reads them: a property the
\* text does not have reads as undefined
ReadObject(o, fields) ==
  [f \in fields |-> IF f \in DOMAIN o THEN o[f] ELSE Undefined[f]]

\* JSON.stringify(items) of an array
StringifyArray(items) ==
  [kind |-> "array", val |-> [i \in 1..Len(items) |-> StringifyObject(items[i])]]

\* localStorage.setItem(key, text): the new slot, or the old one and an
\* exception when the quota is exceeded
SetItem(old, text, full) ==
  IF full THEN [raw |-> old, threw |-> TRUE]
  ELSE [raw |-> text, threw |-> FALSE]

\* JSON.parse(raw): throws SyntaxError on a text that is not JSON
JSONParse(raw) ==
  [threw |-> raw.kind = "invalid", isArray |-> raw.kind = "array", val |-> raw.val]

\* the body of loadHistory / loadFeedbackEntries with its catch left out
TryLoadNoCatch(raw) ==
  IF raw.kind \in {"absent", "empty"} THEN [ret |-> <<>>, threw |-> FALSE]
  ELSE LET parsed == JSONParse(raw)
       IN IF parsed.threw THEN [ret |-> <<>>, threw |-> TRUE]
          ELSE IF ~parsed.isArray THEN [ret |-> <<>>, threw |-> FALSE]
          ELSE [ret |-> parsed.val, threw |-> FALSE]

\* the body of loadHistory / loadFeedbackEntries: what it returns and whether
\* an exception leaves it
TryLoad(raw) ==
  IF raw.kind \in {"absent", "empty"} THEN [ret |-> <<>>, threw |-> FALSE]  \* if (!raw)
  ELSE LET parsed == JSONParse(raw)
       IN IF parsed.threw THEN [ret |-> <<>>, threw |-> FALSE]        \* catch
          ELSE IF ~parsed.isArray THEN [ret |-> <<>>, threw |-> FALSE]
          ELSE [ret |-> parsed.val, threw |-> FALSE]

\* the array loadHistory / loadFeedbackEntries returns
LoadArray(raw) == TryLoad(raw).ret

\* the elements of a loaded array, read as objects with the given properties
ReadArray(items, fields) == [i \in 1..Len(items) |-> ReadObject(items[i], fields)]

loadHistory(raw) == ReadArray(LoadArray(raw), HistoryFields)

loadFeedbackEntries(raw) == ReadArray(LoadArray(raw), FeedbackFields)

saveHistory(raw, items, full) == SetItem(raw, StringifyArray(items), full)

saveFeedbackEntries(raw, items, full) == SetItem(raw, StringifyArray(items), full)

----------------------------------------------------------------------------
(* app/lib/history.ts *)

\* evidenceCount always taken from the evidence
NormalizeFromEvidence(item) == [item EXCEPT !.evidenceCount = Len(item.evidence)]

\* evidenceCount: item.evidenceCount ?? item.evidence?.length ?? 0
Normalize(item) ==
  [item EXCEPT !.evidenceCount =
     IF item.evidenceCount # NoCount THEN item.evidenceCount ELSE Len(item.evidence)]

\* the list saved without truncation
addHistoryUncapped(raw, item, full) ==
  saveHistory(raw, Unshift(loadHistory(raw), Normalize(item)), full)

\* the new item appended instead of prepended
addHistoryPush(raw, item, full) ==
  LET items == loadHistory(raw)
      normalized == Normalize(item)
  IN saveHistory(raw, Slice(Append(items, normalized), HISTORY_CAP), full)

addHistory(raw, item, full) ==
  LET items == loadHistory(raw)
      normalized == Normalize(item)
  IN saveHistory(raw, Slice(Unshift(items, normalized), HISTORY_CAP), full)

\* the key left as it is
clearHistoryKeeps(raw) == raw

\* localStorage.removeItem(KEY)
clearHistory(raw) == Absent

removeHistory(raw, id, full) ==
  saveHistory(raw, FilterNotId(loadHistory(raw), id), full)

\* the question lookup tried before the id lookup
TargetIndexQuestionFirst(items, id, question) ==
  LET byQuestion == IF question # "" THEN FindIndexByQuestion(items, question) ELSE 0
      byId == IF byQuestion = 0 /\ id # NoId THEN FindIndexById(items, id) ELSE byQuestion
  IN IF byId = 0 /\ Len(items) > 0 THEN 1 ELSE byId

\* the index updateHistoryFeedback patches; 0 when it returns without writing
TargetIndex(items, id, question) ==
  LET byId == IF id # NoId THEN FindIndexById(items, id) ELSE 0
      byQuestion == IF byId = 0 /\ question # ""
                    THEN FindIndexByQuestion(items, question)
                    ELSE byId
  IN IF byQuestion = 0 /\ Len(items) > 0 THEN 1 ELSE byQuestion

\* the patch that also restamps the item
PatchRestampsItem(item, fb) ==
  [item EXCEPT !.feedbackThumbs = fb.thumbs,
               !.feedbackComment = fb.comment,
               !.feedbackAt = fb.timestamp,
               !.createdAt = fb.timestamp]

Patch(item, fb) ==
  [item EXCEPT !.feedbackThumbs = fb.thumbs,
               !.feedbackComment = fb.comment,
               !.feedbackAt = fb.timestamp]

updateHistoryFeedback(raw, id, fb, full) ==
  LET items == loadHistory(raw)
      idx == TargetIndex(items, id, fb.question)
  IN IF idx = 0 THEN [raw |-> raw, threw |-> FALSE]
     ELSE saveHistory(raw, [items EXCEPT ![idx] = Patch(items[idx], fb)], full)

\* the entry recordFeedback builds: { ...entry, id, timestamp }
SavedEntry(entry, id, now) ==
  [id |-> id,
   historyId |-> entry.historyId,
   question |-> entry.question,
   thumbs |-> entry.thumbs,
   comment |-> entry.comment,
   timestamp |-> IF entry.timestamp # NoTime THEN entry.timestamp ELSE now]

\* the list saved without truncation
recordFeedbackUncapped(raw, entry, id, now, full) ==
  LET list == loadFeedbackEntries(raw)
      saved == SavedEntry(entry, id, now)
      res == saveFeedbackEntries(raw, Unshift(list, saved), full)
  IN [raw |-> res.raw, threw |-> res.threw,
      ret |-> IF res.threw THEN <<>> ELSE <<saved>>]

recordFeedback(raw, entry, id, now, full) ==
  LET list == loadFeedbackEntries(raw)
      saved == SavedEntry(entry, id, now)
      res == saveFeedbackEntries(raw, Slice(Unshift(list, saved), FEEDBACK_CAP), full)
  IN [raw |-> res.raw, threw |-> res.threw,
      ret |-> IF res.threw THEN <<>> ELSE <<saved>>]

----------------------------------------------------------------------------
(* HistoryPage: mergeFeedback *)

\* Map.set(k, f) on a map held as a function
MapSet(m, k, f) == (k :> f) @@ m

EmptyMap == <<>>

\* the loop of mergeFeedback: for (const f of feedback) { byId.set; byQuestion.set }
RECURSIVE BuildById(_, _)
BuildById(feedback, m) ==
  IF feedback = <<>> THEN m
  ELSE LET f == Head(feedback)
       IN BuildById(Tail(feedback),
                    IF f.historyId # NoId THEN MapSet(m, f.historyId, f) ELSE m)

RECURSIVE BuildByQuestion(_, _)
BuildByQuestion(feedback, m) ==
  IF feedback = <<>> THEN m
  ELSE LET f == Head(feedback)
       IN BuildByQuestion(Tail(feedback),
                          IF f.question # "" THEN MapSet(m, f.question, f) ELSE m)

\* the question lookup tried before the id lookup
HitQuestionFirst(h, byId, byQuestion) ==
  IF h.question \in DOMAIN byQuestion THEN <<byQuestion[h.question]>>
  ELSE IF h.id # NoId /\ h.id \in DOMAIN byId THEN <<byId[h.id]>>
  ELSE <<>>

\* (h.id && byId.get(h.id)) || byQuestion.get(h.question); <<>> is undefined
Hit(h, byId, byQuestion) ==
  IF h.id # NoId /\ h.id \in DOMAIN byId THEN <<byId[h.id]>>
  ELSE IF h.question \in DOMAIN byQuestion THEN <<byQuestion[h.question]>>
  ELSE <<>>

\* the whole entry spread over the item: { ...h, ...hit }
MergeOneSpreadsEntry(h, byId, byQuestion) ==
  LET hit == Hit(h, byId, byQuestion)
  IN IF hit = <<>> THEN h
     ELSE [h EXCEPT !.id = hit[1].id,
                    !.question = hit[1].question,
                    !.feedbackThumbs = hit[1].thumbs,
                    !.feedbackComment = hit[1].comment,
                    !.feedbackAt = hit[1].timestamp]

MergeOne(h, byId, byQuestion) ==
  LET hit == Hit(h, byId, byQuestion)
  IN IF hit = <<>> THEN h
     ELSE [h EXCEPT !.feedbackThumbs = hit[1].thumbs,
                    !.feedbackComment = hit[1].comment,
                    !.feedbackAt = hit[1].timestamp]

mergeFeedback(history, feedback) ==
  LET byId == BuildById(feedback, EmptyMap)
      byQuestion == BuildByQuestion(feedback, EmptyMap)
  IN [i \in 1..Len(history) |-> MergeOne(history[i], byId, byQuestion)]

----------------------------------------------------------------------------
(* QueryPage: handleRecordFeedback, given the page state it reads
   (historyId, currentQuestion) and the thumbs and comment chosen *)

handleRecordFeedback(hRaw, fRaw, historyId, currentQuestion, j, id, now, full) ==
  LET entry == [historyId |-> historyId, question |-> currentQuestion,
                thumbs |-> j.thumbs, comment |-> j.comment, timestamp |-> NoTime]
      rec == recordFeedback(fRaw, entry, id, now, full)
      upd == IF rec.threw THEN [raw |-> hRaw, threw |-> TRUE]
             ELSE updateHistoryFeedback(hRaw, historyId,
                    [thumbs |-> rec.ret[1].thumbs, comment |-> rec.ret[1].comment,
                     timestamp |-> rec.ret[1].timestamp, question |-> currentQuestion],
                    full)
  IN [history |-> upd.raw, feedback |-> rec.raw, threw |-> upd.threw, ret |-> rec.ret]

----------------------------------------------------------------------------
(* QueryPage: the result slot and the page state it feeds *)

DEFAULT_K == 5

\* what useState gives on mount; <<>> is null
InitialPage ==
  [result |-> <<>>, error |-> <<>>, finalTopK |-> DEFAULT_K, historyId |-> NoId,
   currentQuestion |-> "", outOfScope |-> FALSE, initialQuestion |-> ""]

\* the success outcome written without the id of the history item
SuccessWithoutId(data, historyId, question, oos) ==
  [ok |-> TRUE, data |-> <<data>>, finalTopK |-> DEFAULT_K, historyId |-> NoId,
   question |-> question, outOfScope |-> oos, error |-> ""]

\* the two shapes of StoredResult
Success(data, historyId, question, oos) ==
  [ok |-> TRUE, data |-> <<data>>, finalTopK |-> DEFAULT_K, historyId |-> historyId,
   question |-> question, outOfScope |-> oos, error |-> ""]

Failure(msg) ==
  [ok |-> FALSE, data |-> <<>>, finalTopK |-> DEFAULT_K, historyId |-> NoId,
   question |-> "", outOfScope |-> FALSE, error |-> msg]

\* JSON.stringify(outcome)
StringifyResult(o) == [kind |-> "json", val |-> <<o>>]

\* a write that leaves an unread outcome in place
publishKeepsUnread(slot, o) == IF slot.kind = "absent" THEN StringifyResult(o) ELSE slot

\* sessionStorage.setItem("lastQueryResult", JSON.stringify(outcome))
publishResult(slot, o) == StringifyResult(o)

\* the flag taken from the evidence alone
isOutOfScopeEvidenceOnly(data) ==
  "evidence" \notin DOMAIN data \/ Len(data.evidence) = 0

\* a QueryResponse is a record that may come without evidence or categories
isOutOfScope(data) ==
  LET noEvidence == "evidence" \notin DOMAIN data \/ Len(data.evidence) = 0
      noCategories == "categories" \notin DOMAIN data \/ Len(data.categories) = 0
  IN noEvidence \/ noCategories

\* data.categories ?? [], data.answer ?? "", data.evidence ?? []
WithDefaults(data) ==
  [answer |-> IF "answer" \in DOMAIN data THEN data.answer ELSE "",
   categories |-> IF "categories" \in DOMAIN data THEN data.categories ELSE <<>>,
   evidence |-> IF "evidence" \in DOMAIN data THEN data.evidence ELSE <<>>]

\* the success outcome applied without setError(null)
applyStoredResultKeepsError(pg, parsed) ==
  [pg EXCEPT !.result = parsed.data,
             !.finalTopK = parsed.finalTopK,
             !.historyId = parsed.historyId,
             !.currentQuestion = parsed.question,
             !.outOfScope = parsed.outOfScope]

applyStoredResult(pg, parsed) ==
  [pg EXCEPT !.error = <<>>,
             !.result = parsed.data,
             !.finalTopK = parsed.finalTopK,
             !.historyId = parsed.historyId,
             !.currentQuestion = parsed.question,
             !.outOfScope = parsed.outOfScope]

\* the prefill read and left in place
consumePrefillKeeps(slot, pg) ==
  IF slot # "" THEN [slot |-> slot,
                     page |-> [pg EXCEPT !.initialQuestion = slot, !.currentQuestion = slot]]
  ELSE [slot |-> slot, page |-> pg]

\* the mount effect on "prefillQuestion": getItem; if (prefill) { setInitialQuestion;
\* setCurrentQuestion; removeItem }. The slot "" stands for a missing key
consumePrefill(slot, pg) ==
  IF slot # "" THEN [slot |-> "",
                     page |-> [pg EXCEPT !.initialQuestion = slot, !.currentQuestion = slot]]
  ELSE [slot |-> slot, page |-> pg]

\* the slot read and left in place
readFromSessionKeeps(slot, pg) ==
  IF slot.kind # "json" THEN [slot |-> slot, page |-> pg, got |-> <<>>, threw |-> FALSE]
  ELSE [slot |-> slot,
        page |-> IF slot.val[1].ok THEN applyStoredResult(pg, slot.val[1])
                 ELSE [pg EXCEPT !.result = <<>>, !.error = <<slot.val[1].error>>],
        got |-> slot.val, threw |-> FALSE]

\* readFromSession: the slot and the page state after it, what it took, and
\* whether an exception leaves it
readFromSession(slot, pg) ==
  CASE slot.kind \in {"absent", "empty"} ->          \* if (!raw) return
         [slot |-> slot, page |-> pg, got |-> <<>>, threw |-> FALSE]
    [] slot.kind = "json" ->
         [slot |-> Absent,
          page |-> IF slot.val[1].ok THEN applyStoredResult(pg, slot.val[1])
                   ELSE [pg EXCEPT !.result = <<>>, !.error = <<slot.val[1].error>>],
          got |-> slot.val, threw |-> FALSE]
    [] slot.kind = "invalid" ->                        \* JSON.parse throws, caught
         [slot |-> Absent,
          page |-> [pg EXCEPT !.error = <<"Failed to parse query result">>],
          got |-> <<>>, threw |-> FALSE]
    [] slot.kind = "object" ->       \* parsed.ok is undefined, parsed.error too
         [slot |-> Absent,
          page |-> [pg EXCEPT !.result = <<>>, !.error = <<"Unknown error">>],
          got |-> <<>>, threw |-> FALSE]
    [] slot.kind = "null" ->         \* parsed is null: parsed.ok throws TypeError
         [slot |-> Absent, page |-> pg, got |-> <<>>, threw |-> TRUE]

----------------------------------------------------------------------------
(* Inputs *)

\* what a backend response contributes to a HistoryItem
Answers ==
  { [answer |-> "a1", categories |-> <<"glycemic-control">>, evidence |-> <<12>>],
    [answer |-> "a2", categories |-> <<>>, evidence |-> <<>>] }

NewItem(id, now, q, a, count, oos) ==
  [id |-> id, createdAt |-> now, question |-> q,
   categories |-> a.categories, answer |-> a.answer, evidence |-> a.evidence,
   evidenceCount |-> count, outOfScope |-> oos,
   feedbackThumbs |-> "", feedbackComment |-> "", feedbackAt |-> NoTime]

\* thumbs with the comment the page lets the user attach to it
Judgments == { [thumbs |-> "up", comment |-> ""], [thumbs |-> "down", comment |-> "c"] }

Call(op, arg, threw, ret) == [op |-> op, arg |-> arg, threw |-> threw, ret |-> ret]

----------------------------------------------------------------------------
(* State machine of the persistence module driven by one tab *)

Init ==
  /\ historyRaw = Absent
  /\ feedbackRaw = Absent
  /\ quotaFull = FALSE
  /\ nextId = 1
  /\ clock = 1
  /\ lastCall = Call("none", <<>>, FALSE, <<>>)
  /\ hpOpen = FALSE
  /\ view = <<>>
  /\ tabPc = [t \in Tabs |-> "idle"]
  /\ tabLocal = [t \in Tabs |-> <<>>]
  /\ savedIds = {}
  /\ overlapped = {}
  /\ resultSlot = Absent
  /\ prefillSlot = ""
  /\ qpOpen = FALSE
  /\ nav = "idle"
  /\ navSub = 0
  /\ subs = 0
  /\ inflight = {}
  /\ page = InitialPage
  /\ pubLog = <<>>
  /\ slotPub = 0
  /\ consumed = <<>>
  /\ lost = {}

\* a call of addHistory from a page other than the history page
AddHistoryOf(QS, AS, CS, maxId) ==
  /\ nextId <= maxId
  /\ ~hpOpen
  /\ \E q \in QS, a \in AS, count \in CS :
       LET item == NewItem(nextId, clock, q, a, count, a.evidence = <<>>)
           res == addHistory(historyRaw, item, quotaFull)
       IN /\ historyRaw' = res.raw
          /\ lastCall' = Call("addHistory", <<item>>, res.threw, <<>>)
  /\ nextId' = nextId + 1
  /\ clock' = clock + 1
  /\ UNCHANGED <<feedbackRaw, quotaFull, hpOpen, view, tabVars, pageVars>>

RemoveHistory ==
  /\ \E id \in 1..nextId :
       LET res == removeHistory(historyRaw, id, quotaFull)
       IN /\ historyRaw' = res.raw
          /\ lastCall' = Call("removeHistory", <<id>>, res.threw, <<>>)
  /\ UNCHANGED <<feedbackRaw, quotaFull, nextId, clock, hpOpen, view, tabVars, pageVars>>

\* arg records the kind of text the call found under the key
ClearHistory ==
  /\ historyRaw' = clearHistory(historyRaw)
  /\ lastCall' = Call("clearHistory", <<historyRaw.kind>>, FALSE, <<>>)
  /\ UNCHANGED <<feedbackRaw, quotaFull, nextId, clock, hpOpen, view, tabVars, pageVars>>

\* id ranges over no id, the ids handed out and one id never handed out
UpdateHistoryFeedbackOf(QS, JS) ==
  /\ \E id \in 0..nextId, q \in QS, j \in JS :
       LET fb == [thumbs |-> j.thumbs, comment |-> j.comment,
                  timestamp |-> clock, question |-> q]
           res == updateHistoryFeedback(historyRaw, id, fb, quotaFull)
       IN /\ historyRaw' = res.raw
          /\ lastCall' = Call("updateHistoryFeedback", <<id, fb>>, res.threw, <<>>)
  /\ UNCHANGED <<feedbackRaw, quotaFull, nextId, clock, hpOpen, view, tabVars, pageVars>>

\* recordFeedback saving its list under the key of the history log
RecordFeedbackUnderKey(QS, JS, TS, maxId) ==
  /\ nextId <= maxId
  /\ ~hpOpen
  /\ \E hid \in 0..(nextId - 1), q \in QS, j \in JS, ts \in TS :
       LET entry == [historyId |-> hid, question |-> q, thumbs |-> j.thumbs,
                     comment |-> j.comment, timestamp |-> ts]
           res == recordFeedback(feedbackRaw, entry, nextId, clock, quotaFull)
       IN /\ historyRaw' = res.raw
          /\ lastCall' = Call("recordFeedback", <<entry>>, res.threw, res.ret)
  /\ nextId' = nextId + 1
  /\ clock' = clock + 1
  /\ UNCHANGED <<feedbackRaw, quotaFull, hpOpen, view, tabVars, pageVars>>

\* a call of recordFeedback; historyId ranges over no id and the ids handed out
RecordFeedbackOf(QS, JS, TS, maxId) ==
  /\ nextId <= maxId
  /\ ~hpOpen
  /\ \E hid \in 0..(nextId - 1), q \in QS, j \in JS, ts \in TS :
       LET entry == [historyId |-> hid, question |-> q, thumbs |-> j.thumbs,
                     comment |-> j.comment, timestamp |-> ts]
           res == recordFeedback(feedbackRaw, entry, nextId, clock, quotaFull)
       IN /\ feedbackRaw' = res.raw
          /\ lastCall' = Call("recordFeedback", <<entry>>, res.threw, res.ret)
  /\ nextId' = nextId + 1
  /\ clock' = clock + 1
  /\ UNCHANGED <<historyRaw, quotaFull, hpOpen, view, tabVars, pageVars>>

\* HistoryPage.refresh: setItems(mergeFeedback(loadHistory(), loadFeedbackEntries()))
refresh(hRaw, fRaw) == mergeFeedback(loadHistory(hRaw), loadFeedbackEntries(fRaw))

\* the history page mounts: useEffect(() => refresh(), [])
OpenHistoryPage ==
  /\ ~hpOpen
  /\ hpOpen' = TRUE
  /\ view' = refresh(historyRaw, feedbackRaw)
  /\ lastCall' = Call("refresh", <<>>, FALSE, <<>>)
  /\ UNCHANGED <<historyRaw, feedbackRaw, quotaFull, nextId, clock, tabVars, pageVars>>

\* the history page unmounts and its state is dropped
CloseHistoryPage ==
  /\ hpOpen
  /\ hpOpen' = FALSE
  /\ view' = <<>>
  /\ lastCall' = Call("none", <<>>, FALSE, <<>>)
  /\ UNCHANGED <<historyRaw, feedbackRaw, quotaFull, nextId, clock, tabVars, pageVars>>

AnswerInScope ==
  [answer |-> "a1", categories |-> <<"glycemic-control">>, evidence |-> <<12>>]

AddHistory == AddHistoryOf(Questions, {AnswerInScope}, {NoCount}, MaxIds)

UpdateHistoryFeedback == UpdateHistoryFeedbackOf(Questions \cup {""}, Judgments)

(* The history log driven through its API by one tab *)

Next ==
  \/ AddHistory
  \/ RemoveHistory
  \/ ClearHistory
  \/ UpdateHistoryFeedback

Spec == Init /\ [][Next]_vars

----------------------------------------------------------------------------
(* C10: updateHistoryFeedback picks its target by id first, then the newest
   item with the same question, then the most recent item (index 0 of the
   code, 1 here), writes nothing to an empty log, and overwrites the chosen
   item's thumbs, comment and timestamp with the given values. *)

HasId(items, id) == \E i \in 1..Len(items) : items[i].id = id

HasQuestion(items, q) == \E i \in 1..Len(items) : items[i].question = q

C10_Chosen(items, id, q) ==
  IF id # NoId /\ HasId(items, id)
  THEN {i \in 1..Len(items) : items[i].id = id}
  ELSE IF HasQuestion(items, q)
  THEN {i \in 1..Len(items) :
          /\ items[i].question = q
          /\ \A j \in 1..(i - 1) : items[j].question # q}
  ELSE IF Len(items) > 0 THEN {1} ELSE {}

C10_UpdateTargetOrder ==
  [][lastCall'.op = "updateHistoryFeedback" =>
       LET items == loadHistory(historyRaw)
           after == loadHistory(historyRaw')
           id == lastCall'.arg[1]
           fb == lastCall'.arg[2]
           chosen == C10_Chosen(items, id, fb.question)
       IN /\ Len(items) = 0 => historyRaw' = historyRaw
          /\ Len(after) = Len(items)
          /\ Cardinality(chosen) = (IF Len(items) = 0 THEN 0 ELSE 1)
          /\ \A i \in chosen :
               /\ after[i].feedbackThumbs = fb.thumbs
               /\ after[i].feedbackComment = fb.comment
               /\ after[i].feedbackAt = fb.timestamp
     ]_vars

\* an update whose id matches nothing landed on an older item with the same question
C10_Witness ==
  /\ lastCall.op = "updateHistoryFeedback"
  /\ LET items == loadHistory(historyRaw)
         id == lastCall.arg[1]
         fb == lastCall.arg[2]
     IN /\ id # NoId
        /\ ~HasId(items, id)
        /\ Len(items) >= 2
        /\ items[1].question # fb.question
        /\ items[2].question = fb.question
        /\ items[2].feedbackAt = fb.timestamp
        /\ items[1].feedbackAt # fb.timestamp

(* C22: updateHistoryFeedback changes at most one item and only its
   feedback thumbs, comment and timestamp: the length and order of the log,
   every other item, and the id, createdAt, question, answer, categories,
   evidence, evidenceCount and outOfScope of the patched item are as
   before. *)
C22_UpdateFrame ==
  [][lastCall'.op = "updateHistoryFeedback" =>
       LET items == loadHistory(historyRaw)
           after == loadHistory(historyRaw')
           changed == {i \in 1..Len(items) : after[i] # items[i]}
       IN /\ Len(after) = Len(items)
          /\ Cardinality(changed) <= 1
          /\ \A i \in 1..Len(items) :
               \A f \in HistoryFields \ {"feedbackThumbs", "feedbackComment", "feedbackAt"} :
                 after[i][f] = items[i][f]
     ]_vars

\* the older of two items was patched by its id: it carries the new feedback
\* and its creation time, the newer item carries no feedback
C22_Witness ==
  /\ lastCall.op = "updateHistoryFeedback"
  /\ lastCall.arg[1] = 1
  /\ LET items == loadHistory(historyRaw)
         fb == lastCall.arg[2]
     IN /\ Len(items) = 2
        /\ items[1].id = 2
        /\ items[1].feedbackAt = NoTime
        /\ items[2].id = 1
        /\ items[2].createdAt = 1
        /\ items[2].feedbackAt = fb.timestamp
        /\ items[2].feedbackThumbs = fb.thumbs

----------------------------------------------------------------------------
(* Both logs and the history page: items are added and judged on the query
   page, the history page shows the merged view and deletes from it *)

AddHistoryMerge == AddHistoryOf(Questions, {AnswerInScope}, {NoCount}, MaxMergeIds)

\* what the Save feedback button records: thumbs down, with the comment or,
\* the textarea left empty, without one (feedbackComment || undefined)
SavedJudgments ==
  { [thumbs |-> "down", comment |-> ""], [thumbs |-> "down", comment |-> "c"] }

\* the Save feedback button of the query page, for every historyId and
\* currentQuestion the page can hold
GiveFeedbackOf(QS, JS, maxId) ==
  /\ nextId <= maxId
  /\ ~hpOpen
  /\ \E hid \in 0..(nextId - 1), q \in QS, j \in JS :
       LET res == handleRecordFeedback(historyRaw, feedbackRaw, hid, q, j,
                                       nextId, clock, quotaFull)
       IN /\ historyRaw' = res.history
          /\ feedbackRaw' = res.feedback
          /\ lastCall' = Call("handleRecordFeedback", <<hid, q, j>>, res.threw, res.ret)
  /\ nextId' = nextId + 1
  /\ clock' = clock + 1
  /\ UNCHANGED <<quotaFull, hpOpen, view, tabVars, pageVars>>

GiveFeedback == GiveFeedbackOf(Questions \cup {""}, SavedJudgments, MaxMergeIds)

\* the Delete button of a listed item: removeHistory(it.id); refresh()
DeleteClicked ==
  /\ hpOpen
  /\ \E i \in 1..Len(view) :
       LET res == removeHistory(historyRaw, view[i].id, quotaFull)
       IN /\ historyRaw' = res.raw
          /\ view' = IF res.threw THEN view ELSE refresh(res.raw, feedbackRaw)
          /\ lastCall' = Call("removeHistory", <<view[i].id>>, res.threw, <<>>)
  /\ UNCHANGED <<feedbackRaw, quotaFull, nextId, clock, hpOpen, tabVars, pageVars>>

\* the Clear all button: clearHistory(); refresh()
ClearAllClicked ==
  /\ hpOpen
  /\ historyRaw' = clearHistory(historyRaw)
  /\ view' = refresh(clearHistory(historyRaw), feedbackRaw)
  /\ lastCall' = Call("clearHistory", <<historyRaw.kind>>, FALSE, <<>>)
  /\ UNCHANGED <<feedbackRaw, quotaFull, nextId, clock, hpOpen, tabVars, pageVars>>

NextMerge ==
  \/ AddHistoryMerge
  \/ GiveFeedback
  \/ OpenHistoryPage
  \/ CloseHistoryPage
  \/ DeleteClicked
  \/ ClearAllClicked

SpecMerge == Init /\ [][NextMerge]_vars

\* the FeedbackLog entries that name item h (newest first), and those that
\* carry its question
EntriesFor(h) ==
  SelectSeq(loadFeedbackEntries(feedbackRaw), LAMBDA f : f.historyId = h.id)

EntriesAbout(h) ==
  SelectSeq(loadFeedbackEntries(feedbackRaw), LAMBDA f : f.question = h.question)

ShowsEntry(v, f) ==
  /\ v.feedbackThumbs = f.thumbs
  /\ v.feedbackComment = f.comment
  /\ v.feedbackAt = f.timestamp

(* C2: on the history page, an item with two or more FeedbackEntries naming
   its id shows the most recently recorded of them (the first in the
   newest-first log). *)
C2_NewestEntryWins ==
  hpOpen =>
    \A i \in 1..Len(view) :
      LET es == EntriesFor(view[i])
      IN Len(es) >= 2 => ShowsEntry(view[i], es[1])

(* C4: on the history page every item shows an entry naming its id if there
   is one; otherwise an entry carrying its question if there is one;
   otherwise its own stored feedback fields. The rest of the item is as
   stored. *)
C4_LookupOrder ==
  hpOpen =>
    LET stored == loadHistory(historyRaw)
    IN /\ Len(view) = Len(stored)
       /\ \A i \in 1..Len(view) :
            LET h == stored[i]
                v == view[i]
                es == EntriesFor(h)
                qs == EntriesAbout(h)
            IN /\ [v EXCEPT !.feedbackThumbs = h.feedbackThumbs,
                            !.feedbackComment = h.feedbackComment,
                            !.feedbackAt = h.feedbackAt] = h
               /\ IF es # <<>> THEN \E k \in 1..Len(es) : ShowsEntry(v, es[k])
                  ELSE IF qs # <<>> THEN \E k \in 1..Len(qs) : ShowsEntry(v, qs[k])
                  ELSE v = h

\* an entry without historyId is shown on an item with its question, although
\* the stored item carries other feedback
C4_Witness ==
  /\ hpOpen
  /\ \E i \in 1..Len(view) :
       LET h == loadHistory(historyRaw)[i]
           qs == EntriesAbout(h)
       IN /\ EntriesFor(h) = <<>>
          /\ qs # <<>>
          /\ \E k \in 1..Len(qs) : qs[k].historyId = NoId /\ ShowsEntry(view[i], qs[k])
          /\ view[i].feedbackAt # h.feedbackAt

\* an item without any matching entry keeps the feedback fields stored on it
C4_WitnessUnchanged ==
  /\ hpOpen
  /\ \E i \in 1..Len(view) :
       LET h == loadHistory(historyRaw)[i]
       IN /\ EntriesFor(h) = <<>>
          /\ EntriesAbout(h) = <<>>
          /\ h.feedbackAt # NoTime
          /\ view[i] = h

----------------------------------------------------------------------------
(* Both logs driven through their API while the origin's storage quota
   fills up and is freed again *)

\* the environment: localStorage.setItem starts or stops throwing
\* QuotaExceededError
QuotaChange ==
  /\ quotaFull' = ~quotaFull
  /\ lastCall' = Call("none", <<>>, FALSE, <<>>)
  /\ UNCHANGED <<historyRaw, feedbackRaw, nextId, clock, hpOpen, view, tabVars, pageVars>>

JudgmentDown == [thumbs |-> "down", comment |-> "c"]

AddHistoryQuota == AddHistoryOf({"Q1"}, {AnswerInScope}, {NoCount}, MaxIds)

UpdateHistoryFeedbackQuota == UpdateHistoryFeedbackOf({"Q1"}, {JudgmentDown})

RecordFeedbackQuota == RecordFeedbackOf({"Q1"}, {JudgmentDown}, {NoTime}, MaxIds)

NextQuota ==
  \/ AddHistoryQuota
  \/ RemoveHistory
  \/ ClearHistory
  \/ UpdateHistoryFeedbackQuota
  \/ RecordFeedbackQuota
  \/ QuotaChange

SpecQuota == Init /\ [][NextQuota]_vars

(* C5: a failing write of the durable store never fails the caller:
   addHistory, removeHistory, updateHistoryFeedback and recordFeedback return
   normally, and the stored logs are as they were before the call. *)
C5_WritesNeverThrow ==
  lastCall.op \in {"addHistory", "removeHistory", "updateHistoryFeedback",
                  "recordFeedback"}
    => ~lastCall.threw

\* the half of C5 the code keeps: a call that met a failing write left both
\* stored logs as they were
C5_FailedWriteIsNoOp ==
  [][lastCall'.threw => historyRaw' = historyRaw /\ feedbackRaw' = feedbackRaw]_vars

----------------------------------------------------------------------------
(* The query page of one tab: submissions run clientAction, which ends by
   writing the result slot; the page reads the slot when it mounts and when
   the navigation becomes idle *)

\* what the user can leave in the question input (the input is `required`)
RawQuestions == {"Q1", "Q2", " "}

\* the question taken as typed
TrimNothing(text) == text

\* String.prototype.trim on RawQuestions
Trim(text) == IF text = " " THEN "" ELSE text

AnswerOutOfScope == [answer |-> "a2", categories |-> <<>>, evidence |-> <<>>]

\* how fetch("/api/query") ends: an OK response with its JSON body, a non-OK
\* response with its text, or a rejection
\* evidence without categories, and bodies that lack one of the two lists
AnswerNoCategories == [answer |-> "a3", categories |-> <<>>, evidence |-> <<12>>]

AnswerMissingEvidence == [answer |-> "a4", categories |-> <<"glycemic-control">>]

AnswerMissingCategories == [answer |-> "a5", evidence |-> <<12>>]

Responses ==
  { [kind |-> "ok", data |-> <<AnswerInScope>>, text |-> ""],
    [kind |-> "ok", data |-> <<AnswerOutOfScope>>, text |-> ""],
    [kind |-> "ok", data |-> <<AnswerNoCategories>>, text |-> ""],
    [kind |-> "ok", data |-> <<AnswerMissingEvidence>>, text |-> ""],
    [kind |-> "ok", data |-> <<AnswerMissingCategories>>, text |-> ""],
    [kind |-> "notOk", data |-> <<>>, text |-> "backend error"],
    [kind |-> "throw", data |-> <<>>, text |-> "Failed to fetch"] }

\* the form is submitted: the router starts clientAction and nav.state becomes
\* "submitting" (the submit button is disabled while it is)
Submit ==
  /\ qpOpen
  /\ nav # "submitting"
  /\ subs < MaxSubmits
  /\ \E raw \in RawQuestions :
       /\ inflight' = inflight \cup {[n |-> subs + 1, question |-> raw, stage |-> "form"]}
       /\ lastCall' = Call("submit", <<subs + 1, raw>>, FALSE, <<>>)
  /\ subs' = subs + 1
  /\ nav' = "submitting"
  /\ navSub' = subs + 1
  /\ UNCHANGED <<historyRaw, feedbackRaw, quotaFull, nextId, clock, hpOpen, view, tabVars,
                 resultSlot, prefillSlot, qpOpen, page, pubLog, slotPub, consumed, lost>>

\* clientAction r returns null: the navigation it belongs to, if the router
\* still waits for it, goes on to "loading"
Returned(r) ==
  /\ inflight' = inflight \ {r}
  /\ nav' = IF qpOpen /\ nav = "submitting" /\ navSub = r.n THEN "loading" ELSE nav
  /\ UNCHANGED navSub

\* sessionStorage.setItem("lastQueryResult", ...) of clientAction
Publish(o) ==
  /\ resultSlot' = publishResult(resultSlot, o)
  /\ pubLog' = Append(pubLog, o)
  /\ slotPub' = Len(pubLog) + 1
  /\ lost' = IF resultSlot.kind = "absent" THEN lost ELSE lost \cup {slotPub}

\* clientAction up to fetch: formData, trim, the empty-question exit
ActionForm(r) ==
  /\ r \in inflight
  /\ r.stage = "form"
  /\ LET question == Trim(r.question)
     IN IF question = ""
        THEN /\ Publish(Failure("Question is required"))
             /\ Returned(r)
             /\ lastCall' = Call("clientAction", <<r.n, "empty">>, FALSE, <<>>)
        ELSE /\ inflight' = (inflight \ {r}) \cup
                              {[n |-> r.n, question |-> question, stage |-> "fetch"]}
             /\ lastCall' = Call("fetch", <<r.n>>, FALSE, <<>>)
             /\ UNCHANGED <<resultSlot, pubLog, slotPub, lost, nav, navSub>>
  /\ UNCHANGED <<historyRaw, feedbackRaw, quotaFull, nextId, clock, hpOpen, view, tabVars,
                 prefillSlot, qpOpen, subs, page, consumed>>

\* clientAction from the end of fetch to its return, fetch ending in one of RS
ActionResponseOf(r, RS) ==
  /\ r \in inflight
  /\ r.stage = "fetch"
  /\ \E resp \in RS :
       /\ lastCall' = Call("clientAction", <<r.n, resp.kind>>, FALSE, <<>>)
       /\ IF resp.kind = "ok"
          THEN LET data == resp.data[1]
                   historyId == nextId
                   outOfScope == isOutOfScope(data)
                   item == NewItem(historyId, clock, r.question, WithDefaults(data),
                                   Len(WithDefaults(data).evidence), outOfScope)
                   res == addHistory(historyRaw, item, quotaFull)
               IN /\ historyRaw' = res.raw
                  /\ nextId' = nextId + 1
                  /\ clock' = clock + 1
                  /\ IF res.threw                       \* caught by the catch block
                     THEN Publish(Failure("QuotaExceededError"))
                     ELSE Publish(Success(data, historyId, r.question, outOfScope))
          ELSE /\ Publish(Failure(resp.text))
               /\ UNCHANGED <<historyRaw, nextId, clock>>
  /\ Returned(r)
  /\ UNCHANGED <<feedbackRaw, quotaFull, hpOpen, view, tabVars,
                 prefillSlot, qpOpen, subs, page, consumed>>

ActionResponse(r) == ActionResponseOf(r, Responses)

\* what readFromSession took, added to the record of taken outcomes
Taken(read) == IF read.got = <<>> THEN consumed ELSE Append(consumed, slotPub)

\* nav.state becomes "idle": the effect on [nav.state] calls readFromSession.
\* An exception that leaves the effect unmounts the page (the router renders
\* its error boundary in place of the route)
NavIdle ==
  /\ qpOpen
  /\ nav = "loading"
  /\ LET read == readFromSession(resultSlot, page)
     IN /\ resultSlot' = read.slot
        /\ page' = IF read.threw THEN InitialPage ELSE read.page
        /\ qpOpen' = ~read.threw
        /\ consumed' = Taken(read)
        /\ slotPub' = IF read.slot.kind = "absent" THEN 0 ELSE slotPub
        /\ lastCall' = Call("readFromSession", <<resultSlot.kind>>, read.threw, read.got)
  /\ nav' = "idle"
  /\ navSub' = 0
  /\ UNCHANGED <<historyRaw, feedbackRaw, quotaFull, nextId, clock, hpOpen, view, tabVars,
                 prefillSlot, subs, inflight, pubLog, lost>>

\* the query page mounts: the mount effect takes the prefill and calls
\* readFromSession, then the effect on [nav.state] ("idle") calls it again
OpenQueryPage ==
  /\ ~qpOpen
  /\ ~hpOpen
  /\ LET prefill == consumePrefill(prefillSlot, InitialPage)
         first == readFromSession(resultSlot, prefill.page)
         second == readFromSession(first.slot, first.page)
         threw == first.threw \/ second.threw
     IN /\ resultSlot' = second.slot
        /\ page' = IF threw THEN InitialPage ELSE second.page
        /\ qpOpen' = ~threw
        /\ consumed' = (IF first.got = <<>> THEN consumed ELSE Append(consumed, slotPub))
                          \o (IF second.got = <<>> THEN <<>> ELSE <<slotPub>>)
        /\ slotPub' = IF second.slot.kind = "absent" THEN 0 ELSE slotPub
        /\ lastCall' = Call("mount", <<resultSlot.kind, prefillSlot>>, threw,
                            first.got \o second.got)
        /\ prefillSlot' = prefill.slot
  /\ nav' = "idle"
  /\ navSub' = 0
  /\ UNCHANGED <<historyRaw, feedbackRaw, quotaFull, nextId, clock, hpOpen, view, tabVars,
                 subs, inflight, pubLog, lost>>

\* the user leaves the query page: its state is dropped and the pending
\* navigation, if any, is abandoned (its clientAction keeps running)
CloseQueryPage ==
  /\ qpOpen
  /\ qpOpen' = FALSE
  /\ page' = InitialPage
  /\ nav' = "idle"
  /\ navSub' = 0
  /\ lastCall' = Call("none", <<>>, FALSE, <<>>)
  /\ UNCHANGED <<historyRaw, feedbackRaw, quotaFull, nextId, clock, hpOpen, view, tabVars,
                 resultSlot, prefillSlot, subs, inflight, pubLog, slotPub, consumed, lost>>

NextPage ==
  \/ OpenQueryPage
  \/ CloseQueryPage
  \/ Submit
  \/ \E r \in inflight : ActionForm(r)
  \/ \E r \in inflight : ActionResponse(r)
  \/ NavIdle

SpecPage == Init /\ [][NextPage]_vars

Range(f) == {f[i] : i \in DOMAIN f}

IsConsume(call) == call.op \in {"readFromSession", "mount"}

(* C3: the result slot is read once. A consume that finds outcome X in the
   slot yields X (and nothing else), applies it to the page and empties the
   slot; a consume that finds the slot empty yields nothing; no published
   outcome is ever taken twice, although mounting the page consumes twice. *)
C3_ResultReadOnce ==
  [][IsConsume(lastCall') =>
       /\ resultSlot' = Absent
       /\ IF resultSlot.kind = "json"
          THEN /\ lastCall'.ret = resultSlot.val
               /\ resultSlot.val = <<pubLog[slotPub]>>
               /\ consumed' = Append(consumed, slotPub)
               /\ IF resultSlot.val[1].ok
                  THEN /\ page'.result = resultSlot.val[1].data
                       /\ page'.historyId = resultSlot.val[1].historyId
                       /\ page'.error = <<>>
                  ELSE /\ page'.result = <<>>
                       /\ page'.error = <<resultSlot.val[1].error>>
          ELSE /\ lastCall'.ret = <<>>
               /\ consumed' = consumed
       /\ \A i, j \in DOMAIN consumed' : i # j => consumed'[i] # consumed'[j]
     ]_vars

\* the page mounted on a pending success outcome: its two consumes took the
\* outcome once and the slot is empty
C3_Witness ==
  /\ lastCall.op = "mount"
  /\ Len(lastCall.ret) = 1
  /\ lastCall.ret[1].ok
  /\ page.result = lastCall.ret[1].data
  /\ resultSlot = Absent
  /\ Len(consumed) = 2

(* C6: every submission ends by publishing exactly one outcome, at the step
   clientAction returns. A submission the backend answered OK prepends one
   HistoryItem and publishes a success outcome carrying that item's id; one
   that failed (empty question, non-OK response, rejected fetch) publishes a
   failure outcome and leaves the history log as it was. *)
C6_SubmissionOutcome ==
  [][/\ Len(pubLog') = subs' - Cardinality(inflight')
     /\ lastCall'.op # "clientAction" => pubLog' = pubLog
     /\ lastCall'.op = "clientAction" =>
          LET o == pubLog'[Len(pubLog')]
              before == loadHistory(historyRaw)
              after == loadHistory(historyRaw')
          IN /\ pubLog' = Append(pubLog, o)
             /\ resultSlot'.kind = "json"
             /\ resultSlot'.val = <<o>>
             /\ Cardinality(inflight') = Cardinality(inflight) - 1
             /\ IF lastCall'.arg[2] = "ok"
                THEN /\ o.ok
                     /\ Len(after) = Len(before) + 1
                     /\ SubSeq(after, 2, Len(after)) = before
                     /\ after[1].id = o.historyId
                     /\ after[1].question = o.question
                ELSE /\ ~o.ok
                     /\ historyRaw' = historyRaw
    ]_vars

\* a failed and a successful submission have both published
C6_Witness ==
  /\ lastCall.op = "clientAction"
  /\ lastCall.arg[2] = "ok"
  /\ Len(pubLog) = 2
  /\ ~pubLog[1].ok
  /\ pubLog[2].ok
  /\ Len(loadHistory(historyRaw)) = 1
  /\ loadHistory(historyRaw)[1].id = pubLog[2].historyId
  /\ resultSlot.val = <<pubLog[2]>>

(* C7: the result slot holds at most one pending outcome, the one written
   last. An outcome overwritten before it was read is never taken by any
   consume, although a successful submission behind it has added its
   HistoryItem; what a consume takes is the outcome written last. *)
C7_LaterWriteWins ==
  /\ resultSlot.kind \in {"absent", "json"}
  /\ resultSlot.kind = "absent" => slotPub = 0
  /\ resultSlot.kind = "json" =>
       /\ slotPub = Len(pubLog)
       /\ resultSlot.val = <<pubLog[slotPub]>>
  /\ \A p \in lost :
       /\ p \notin Range(consumed)
       /\ pubLog[p].ok => HasId(loadHistory(historyRaw), pubLog[p].historyId)
  /\ IsConsume(lastCall) /\ lastCall.ret # <<>> =>
       lastCall.ret = <<pubLog[consumed[Len(consumed)]]>>

\* two successful submissions completed before any consume: the first
\* outcome is lost, the second was taken, both items are in the history log
C7_Witness ==
  /\ Len(pubLog) = 2
  /\ pubLog[1].ok
  /\ pubLog[2].ok
  /\ lost = {1}
  /\ consumed = <<2>>
  /\ page.historyId = pubLog[2].historyId
  /\ Len(loadHistory(historyRaw)) = 2

(* C15: for a submission the backend answered OK, the stored HistoryItem and
   the published success outcome carry the same outOfScope flag; the flag is
   true exactly when the response has no evidence list or an empty one, or
   no category list or an empty one; the stored evidenceCount is the number
   of evidence records of the response. *)
C15_OutOfScopeFlag ==
  [][lastCall'.op = "clientAction" /\ lastCall'.arg[2] = "ok" =>
       LET o == pubLog'[Len(pubLog')]
           item == loadHistory(historyRaw')[1]
           data == o.data[1]
           evidence == IF "evidence" \in DOMAIN data THEN data.evidence ELSE <<>>
           categories == IF "categories" \in DOMAIN data THEN data.categories ELSE <<>>
       IN /\ o.ok
          /\ item.id = o.historyId
          /\ item.outOfScope = o.outOfScope
          /\ o.outOfScope = (evidence = <<>> \/ categories = <<>>)
          /\ item.evidenceCount = Len(evidence)
          /\ item.evidence = evidence
     ]_vars

\* a response with one evidence record and no categories was stored and
\* published as out of scope, with an evidenceCount of 1
C15_Witness ==
  /\ lastCall.op = "clientAction"
  /\ lastCall.arg[2] = "ok"
  /\ pubLog # <<>>
  /\ LET o == pubLog[Len(pubLog)]
         item == loadHistory(historyRaw)[1]
     IN /\ o.ok
        /\ o.data = <<AnswerMissingCategories>>
        /\ o.outOfScope
        /\ item.id = o.historyId
        /\ item.outOfScope
        /\ item.evidenceCount = 1

\* a response with evidence and categories was stored and published as in scope
C15_WitnessInScope ==
  /\ lastCall.op = "clientAction"
  /\ lastCall.arg[2] = "ok"
  /\ pubLog # <<>>
  /\ LET o == pubLog[Len(pubLog)]
         item == loadHistory(historyRaw)[1]
     IN /\ o.ok
        /\ ~o.outOfScope
        /\ item.id = o.historyId
        /\ ~item.outOfScope
        /\ item.evidenceCount = 1

----------------------------------------------------------------------------
(* The query page on a result slot that other scripts of the tab can write:
   at any time the slot may be left holding a text that is not JSON, the
   JSON of a value that is not an outcome object, or the JSON null *)

ForeignResults ==
  { [kind |-> "invalid", val |-> <<>>],    \* "{oops"
    [kind |-> "object", val |-> <<>>],     \* "{}", "[]", "42"
    [kind |-> "null", val |-> <<>>] }      \* "null"

\* another writer sets the result slot, over whatever was pending in it
ForeignResult ==
  /\ \E text \in ForeignResults : resultSlot' = text
  /\ slotPub' = 0
  /\ lost' = IF resultSlot.kind = "json" THEN lost \cup {slotPub} ELSE lost
  /\ lastCall' = Call("none", <<>>, FALSE, <<>>)
  /\ UNCHANGED <<historyRaw, feedbackRaw, quotaFull, nextId, clock, hpOpen, view, tabVars,
                 prefillSlot, qpOpen, nav, navSub, subs, inflight, page, pubLog, consumed>>

NextSlot ==
  \/ OpenQueryPage
  \/ CloseQueryPage
  \/ Submit
  \/ \E r \in inflight : ActionForm(r)
  \/ \E r \in inflight : ActionResponse(r)
  \/ NavIdle
  \/ ForeignResult

SpecSlot == Init /\ [][NextSlot]_vars

(* C17: consuming the result slot never throws: when the slot holds a
   non-empty text that is not a well-formed outcome (not JSON, or JSON that
   is not an outcome object), the consume returns normally, deletes the slot
   and leaves an error on the page. *)
C17_ConsumeNeverThrows ==
  [][IsConsume(lastCall') /\ lastCall'.arg[1] \in {"invalid", "object", "null"} =>
       /\ ~lastCall'.threw
       /\ resultSlot' = Absent
       /\ page'.error # <<>>
     ]_vars

\* the part of C17 the code keeps: a text that is not JSON is deleted and
\* shown as the parse failure, and every consume empties the slot
C17_InvalidTextIsParseFailure ==
  [][IsConsume(lastCall') =>
       /\ resultSlot' = Absent
       /\ lastCall'.arg[1] = "invalid" =>
            /\ ~lastCall'.threw
            /\ page'.error = <<"Failed to parse query result">>
     ]_vars

----------------------------------------------------------------------------
(* One tab moving between the query page and the history page: questions are
   submitted on the query page, the Re-run button of the history page
   publishes a question to the prefill slot and loads the query page *)

\* the user goes from the query page (or from nowhere) to the history page
VisitHistoryPage ==
  /\ ~qpOpen
  /\ OpenHistoryPage

\* handleRerun(it.question): setItem("prefillQuestion", question), then
\* window.location.href = "/" unloads the document (the running actions of
\* the tab end with it) and the query page is loaded next
Rerun ==
  /\ hpOpen
  /\ \E i \in 1..Len(view) :
       /\ prefillSlot' = view[i].question
       /\ lastCall' = Call("rerun", <<view[i].question>>, FALSE, <<>>)
  /\ hpOpen' = FALSE
  /\ view' = <<>>
  /\ inflight' = {}
  /\ nav' = "idle"
  /\ navSub' = 0
  /\ UNCHANGED <<historyRaw, feedbackRaw, quotaFull, nextId, clock, tabVars,
                 resultSlot, qpOpen, subs, page, pubLog, slotPub, consumed, lost>>

ResponsesRerun ==
  { [kind |-> "ok", data |-> <<AnswerInScope>>, text |-> ""],
    [kind |-> "notOk", data |-> <<>>, text |-> "backend error"] }

ActionResponseRerun(r) == ActionResponseOf(r, ResponsesRerun)

NextRerun ==
  \/ OpenQueryPage
  \/ CloseQueryPage
  \/ Submit
  \/ \E r \in inflight : ActionForm(r)
  \/ \E r \in inflight : ActionResponseRerun(r)
  \/ NavIdle
  \/ VisitHistoryPage
  \/ CloseHistoryPage
  \/ Rerun

SpecRerun == Init /\ [][NextRerun]_vars

(* C18: the prefill slot is read once. Re-run publishes the question T of
   the item to the slot and leaves the result slot alone; the next mount of
   the query page makes T its initial question and deletes the slot, and a
   mount that finds no prefill starts with an empty initial question; only
   these two steps change the prefill slot. At a mount the result slot is
   handled as without a prefill: a pending outcome is taken by
   readFromSession and nothing else changes the slot. *)
C18_PrefillReadOnce ==
  [][/\ lastCall'.op = "rerun" =>
          /\ prefillSlot' = lastCall'.arg[1]
          /\ prefillSlot' # ""
          /\ resultSlot' = resultSlot
     /\ lastCall'.op = "mount" =>
          /\ prefillSlot' = ""
          /\ page'.initialQuestion = prefillSlot
          /\ resultSlot' = Absent
          /\ lastCall'.ret = (IF resultSlot.kind = "json" THEN resultSlot.val ELSE <<>>)
          /\ resultSlot.kind = "json" /\ resultSlot.val[1].ok =>
               page'.result = resultSlot.val[1].data
     /\ lastCall'.op \notin {"rerun", "mount"} => prefillSlot' = prefillSlot
    ]_vars

\* the query page mounted on the prefill Q1 and a pending outcome: the
\* question is the initial question, the outcome was taken, both slots are
\* empty
C18_Witness ==
  /\ lastCall.op = "mount"
  /\ lastCall.arg = <<"json", "Q1">>
  /\ qpOpen
  /\ page.initialQuestion = "Q1"
  /\ prefillSlot = ""
  /\ Len(lastCall.ret) = 1
  /\ resultSlot = Absent

----------------------------------------------------------------------------
(* Several tabs of the same origin appending to the shared logs. Inside one
   tab addHistory and recordFeedback run to completion; between tabs the
   getItem of the load and the setItem of the save are separate steps. *)

Busy(t) == tabPc[t] # "idle"

\* the ids of the calls other tabs are inside
PendingIds(t) == {tabLocal[u][1].id : u \in {u \in Tabs : u # t /\ Busy(u)}}

\* addHistory up to the array it is about to save:
\* items = loadHistory(); items.unshift(normalized); items.slice(0, 50)
TabAddLoad(t) ==
  /\ ~Busy(t)
  /\ nextId <= MaxTabIds
  /\ \E q \in Questions :
       LET item == NewItem(nextId, clock, q, AnswerInScope, NoCount, FALSE)
       IN tabLocal' = [tabLocal EXCEPT ![t] =
            Slice(Unshift(loadHistory(historyRaw), Normalize(item)), HISTORY_CAP)]
  /\ tabPc' = [tabPc EXCEPT ![t] = "addHistory"]
  /\ overlapped' = IF PendingIds(t) = {} THEN overlapped
                   ELSE overlapped \cup PendingIds(t) \cup {nextId}
  /\ lastCall' = Call("load", <<t>>, FALSE, <<>>)
  /\ nextId' = nextId + 1
  /\ clock' = clock + 1
  /\ UNCHANGED <<historyRaw, feedbackRaw, quotaFull, hpOpen, view, savedIds, pageVars>>

\* recordFeedback up to the array it is about to save
TabRecordLoad(t) ==
  /\ ~Busy(t)
  /\ nextId <= MaxTabIds
  /\ \E q \in Questions :
       LET entry == [historyId |-> NoId, question |-> q, thumbs |-> "down",
                     comment |-> "c", timestamp |-> NoTime]
       IN tabLocal' = [tabLocal EXCEPT ![t] =
            Slice(Unshift(loadFeedbackEntries(feedbackRaw),
                          SavedEntry(entry, nextId, clock)), FEEDBACK_CAP)]
  /\ tabPc' = [tabPc EXCEPT ![t] = "recordFeedback"]
  /\ overlapped' = IF PendingIds(t) = {} THEN overlapped
                   ELSE overlapped \cup PendingIds(t) \cup {nextId}
  /\ lastCall' = Call("load", <<t>>, FALSE, <<>>)
  /\ nextId' = nextId + 1
  /\ clock' = clock + 1
  /\ UNCHANGED <<historyRaw, feedbackRaw, quotaFull, hpOpen, view, savedIds, pageVars>>

\* saveHistory / saveFeedbackEntries of the call the tab is inside
TabSave(t) ==
  /\ Busy(t)
  /\ IF tabPc[t] = "addHistory"
     THEN /\ historyRaw' = saveHistory(historyRaw, tabLocal[t], quotaFull).raw
          /\ UNCHANGED feedbackRaw
     ELSE /\ feedbackRaw' = saveFeedbackEntries(feedbackRaw, tabLocal[t], quotaFull).raw
          /\ UNCHANGED historyRaw
  /\ savedIds' = savedIds \cup {tabLocal[t][1].id}
  /\ tabPc' = [tabPc EXCEPT ![t] = "idle"]
  /\ tabLocal' = [tabLocal EXCEPT ![t] = <<>>]
  /\ lastCall' = Call("save", <<t>>, FALSE, <<>>)
  /\ UNCHANGED <<quotaFull, nextId, clock, hpOpen, view, overlapped, pageVars>>

NextTabs ==
  \/ \E t \in Tabs : TabAddLoad(t)
  \/ \E t \in Tabs : TabRecordLoad(t)
  \/ \E t \in Tabs : TabSave(t)

SpecTabs == Init /\ [][NextTabs]_vars

StoredIds ==
  {loadHistory(historyRaw)[i].id : i \in 1..Len(loadHistory(historyRaw))}
    \cup {loadFeedbackEntries(feedbackRaw)[i].id :
             i \in 1..Len(loadFeedbackEntries(feedbackRaw))}

(* C8: an entry that was appended is missing from the stored log only when
   its load-mutate-save overlapped another tab's; the appends of calls that
   ran one after the other, as all calls of a single tab do, are all kept. *)
C8_OnlyOverlappingAppendsLost ==
  \A id \in savedIds : id \notin StoredIds => id \in overlapped

\* two tabs have each added one item and the stored log holds one of them
C8_Witness ==
  /\ \A t \in Tabs : ~Busy(t)
  /\ savedIds = {1, 2}
  /\ Len(loadHistory(historyRaw)) = 1
  /\ feedbackRaw = Absent

----------------------------------------------------------------------------
(* The feedback log at its cap: recordFeedback called on storage that is
   empty or holds what an earlier session of the tab left *)

\* an entry recorded in an earlier session; those sessions' ids and clock
\* readings are the negative numbers
EarlierEntry(k) ==
  [id |-> 0 - k, historyId |-> NoId, question |-> "Q1", thumbs |-> "up",
   comment |-> "", timestamp |-> 0 - k]

\* the log after n calls of recordFeedback in earlier sessions, newest first
EarlierFeedback(n) == StringifyArray([i \in 1..n |-> EarlierEntry(i)])

InitFb ==
  /\ historyRaw = Absent
  /\ feedbackRaw \in {Absent, EarlierFeedback(FEEDBACK_CAP - 1)}
  /\ quotaFull = FALSE
  /\ nextId = 1
  /\ clock = 1
  /\ lastCall = Call("none", <<>>, FALSE, <<>>)
  /\ hpOpen = FALSE
  /\ view = <<>>
  /\ tabPc = [t \in Tabs |-> "idle"]
  /\ tabLocal = [t \in Tabs |-> <<>>]
  /\ savedIds = {}
  /\ overlapped = {}
  /\ resultSlot = Absent
  /\ prefillSlot = ""
  /\ qpOpen = FALSE
  /\ nav = "idle"
  /\ navSub = 0
  /\ subs = 0
  /\ inflight = {}
  /\ page = InitialPage
  /\ pubLog = <<>>
  /\ slotPub = 0
  /\ consumed = <<>>
  /\ lost = {}

\* the caller passes no timestamp or the timestamp 1
RecordFeedback == RecordFeedbackOf(Questions \cup {""}, Judgments, {NoTime, 1}, MaxRecords)

NextFb == RecordFeedback

SpecFb == InitFb /\ [][NextFb]_vars

(* C9: recordFeedback gives the entry a fresh id and the caller's timestamp,
   or the current time when the caller gave none, puts it at the front of
   the log, keeps the 100 most recent entries and returns the entry stored. *)
C9_RecordFeedback ==
  [][lastCall'.op = "recordFeedback" =>
       LET before == loadFeedbackEntries(feedbackRaw)
           after == loadFeedbackEntries(feedbackRaw')
           entry == lastCall'.arg[1]
       IN /\ Len(lastCall'.ret) = 1
          /\ LET saved == lastCall'.ret[1]
             IN /\ \A k \in 1..Len(before) : before[k].id # saved.id
                /\ saved.timestamp =
                     (IF entry.timestamp # NoTime THEN entry.timestamp ELSE clock)
                /\ saved.historyId = entry.historyId
                /\ saved.question = entry.question
                /\ saved.thumbs = entry.thumbs
                /\ saved.comment = entry.comment
                /\ Len(after) = (IF Len(before) + 1 <= 100 THEN Len(before) + 1 ELSE 100)
                /\ after[1] = saved
                /\ \A k \in 2..Len(after) : after[k] = before[k - 1]
     ]_vars

\* an entry with a caller-supplied timestamp was stored in a full log and the
\* oldest entry is gone
C9_Witness ==
  /\ lastCall.op = "recordFeedback"
  /\ lastCall.arg[1].timestamp # NoTime
  /\ LET after == loadFeedbackEntries(feedbackRaw)
     IN /\ Len(after) = 100
        /\ after[1] = lastCall.ret[1]
        /\ after[1].timestamp = lastCall.arg[1].timestamp
        /\ after[100].id = 0 - 98

----------------------------------------------------------------------------
(* The history log filled past its cap: addHistory called MaxCapAdds times
   from empty storage, the history page opened in between *)

AddHistoryCap == AddHistoryOf({"Q1"}, {AnswerInScope}, {NoCount}, MaxCapAdds)

NextCap ==
  \/ AddHistoryCap
  \/ OpenHistoryPage
  \/ CloseHistoryPage

SpecCap == Init /\ [][NextCap]_vars

(* C1: from an empty log, after N calls of addHistory loadHistory returns
   min(N, 50) items, newest first: the items added last, in reverse order of
   insertion (the k-th call adds the item with id k). *)
C1_CapNewestFirst ==
  LET loaded == loadHistory(historyRaw)
      N == nextId - 1
  IN /\ Len(loaded) = (IF N <= 50 THEN N ELSE 50)
     /\ \A i \in 1..Len(loaded) : loaded[i].id = N + 1 - i

\* more than 50 items were added and the oldest are gone
C1_Witness ==
  LET loaded == loadHistory(historyRaw)
  IN /\ nextId - 1 = 52
     /\ Len(loaded) = 50
     /\ loaded[1].id = 52
     /\ loaded[50].id = 3

----------------------------------------------------------------------------
(* The history log with single items removed: up to MaxRemoveIds items are
   added from empty storage and removed in any order, by ids that are and
   ids that are not in the log *)

AddHistoryRemove == AddHistoryOf(Questions, {AnswerInScope}, {NoCount}, MaxRemoveIds)

NextRemove ==
  \/ AddHistoryRemove
  \/ RemoveHistory
  \/ ClearHistory

SpecRemove == Init /\ [][NextRemove]_vars

(* C11: removeHistory(id) leaves the log as it was without the entries whose
   id is id, the others in their order; with an id that is not in the log
   the sequence loaded after equals the one loaded before, and the call
   returns normally. *)
C11_RemoveFiltersById ==
  [][lastCall'.op = "removeHistory" =>
       LET before == loadHistory(historyRaw)
           after == loadHistory(historyRaw')
           id == lastCall'.arg[1]
       IN /\ ~lastCall'.threw
          /\ after = SelectSeq(before, LAMBDA x : x.id # id)
          /\ ~HasId(before, id) => after = before
     ]_vars

\* the middle one of three items was removed and the other two are in order
C11_Witness ==
  /\ lastCall.op = "removeHistory"
  /\ lastCall.arg[1] = 2
  /\ nextId = 4
  /\ LET after == loadHistory(historyRaw)
     IN /\ Len(after) = 2
        /\ after[1].id = 3
        /\ after[2].id = 1

\* an id never handed out was removed from a log of two items
C11_WitnessAbsent ==
  /\ lastCall.op = "removeHistory"
  /\ lastCall.arg[1] = nextId
  /\ Len(loadHistory(historyRaw)) = 2

----------------------------------------------------------------------------
(* Both logs on storage that other writers of the origin share: at any time
   either key may be left holding an empty text, a text that is not JSON or
   the JSON of something that is not an array *)

ForeignTexts ==
  { [kind |-> "empty", val |-> <<>>],      \* ""
    [kind |-> "invalid", val |-> <<>>],    \* "{oops"
    [kind |-> "object", val |-> <<>>] }    \* "{}", "null", "42"

\* another writer sets one of the two keys
ForeignWrite ==
  /\ \E text \in ForeignTexts :
       \/ historyRaw' = text /\ UNCHANGED feedbackRaw
       \/ feedbackRaw' = text /\ UNCHANGED historyRaw
  /\ lastCall' = Call("none", <<>>, FALSE, <<>>)
  /\ UNCHANGED <<quotaFull, nextId, clock, hpOpen, view, tabVars, pageVars>>

\* a call of loadHistory; arg records the kind of text it found
LoadHistory ==
  /\ lastCall' = Call("loadHistory", <<historyRaw.kind>>, TryLoad(historyRaw).threw,
                      loadHistory(historyRaw))
  /\ UNCHANGED <<historyRaw, feedbackRaw, quotaFull, nextId, clock, hpOpen, view,
                 tabVars, pageVars>>

\* a call of loadFeedbackEntries; arg records the kind of text it found
LoadFeedbackEntries ==
  /\ lastCall' = Call("loadFeedbackEntries", <<feedbackRaw.kind>>,
                      TryLoad(feedbackRaw).threw, loadFeedbackEntries(feedbackRaw))
  /\ UNCHANGED <<historyRaw, feedbackRaw, quotaFull, nextId, clock, hpOpen, view,
                 tabVars, pageVars>>

AddHistoryForeign == AddHistoryOf({"Q1"}, {AnswerInScope}, {NoCount}, MaxIds)

UpdateHistoryFeedbackForeign == UpdateHistoryFeedbackOf({"Q1"}, {JudgmentDown})

RecordFeedbackForeign == RecordFeedbackOf({"Q1"}, {JudgmentDown}, {NoTime}, MaxIds)

NextForeign ==
  \/ AddHistoryForeign
  \/ RemoveHistory
  \/ ClearHistory
  \/ UpdateHistoryFeedbackForeign
  \/ RecordFeedbackForeign
  \/ LoadHistory
  \/ LoadFeedbackEntries
  \/ ForeignWrite

SpecForeign == Init /\ [][NextForeign]_vars

(* C12: whatever the history key holds (a populated log, an empty one, no
   key, a corrupted text), after clearHistory the key is gone and
   loadHistory returns the empty sequence. *)
C12_ClearThenLoadEmpty ==
  [][lastCall'.op = "clearHistory" =>
       /\ ~lastCall'.threw
       /\ historyRaw'.kind = "absent"
       /\ loadHistory(historyRaw') = <<>>
     ]_vars

\* clearHistory has run on a populated log
C12_Witness ==
  /\ lastCall.op = "clearHistory"
  /\ lastCall.arg[1] = "array"
  /\ nextId > 1
  /\ loadHistory(historyRaw) = <<>>

\* clearHistory has run on a corrupted key
C12_WitnessCorrupted ==
  /\ lastCall.op = "clearHistory"
  /\ lastCall.arg[1] = "invalid"
  /\ loadHistory(historyRaw) = <<>>

(* C14: loadHistory and loadFeedbackEntries return normally whatever the key
   holds; they return the empty sequence when the key is absent or holds an
   empty text, a text that is not JSON, or JSON that is not an array; they
   return the stored entries otherwise; and they leave both keys as they
   were. *)
C14_LoadNeverRaises ==
  [][lastCall'.op \in {"loadHistory", "loadFeedbackEntries"} =>
       LET raw == IF lastCall'.op = "loadHistory" THEN historyRaw ELSE feedbackRaw
       IN /\ ~lastCall'.threw
          /\ raw.kind \in {"absent", "empty", "invalid", "object"} => lastCall'.ret = <<>>
          /\ raw.kind = "array" =>
               /\ Len(lastCall'.ret) = Len(raw.val)
               /\ \A i \in 1..Len(raw.val) : lastCall'.ret[i].id = raw.val[i].id
          /\ historyRaw' = historyRaw
          /\ feedbackRaw' = feedbackRaw
     ]_vars

\* loadHistory has returned the empty sequence for a text that is not JSON
C14_Witness ==
  /\ lastCall.op = "loadHistory"
  /\ lastCall.arg[1] = "invalid"
  /\ historyRaw.kind = "invalid"
  /\ ~lastCall.threw
  /\ lastCall.ret = <<>>

\* loadFeedbackEntries has returned the empty sequence for JSON that is not an
\* array
C14_WitnessNotArray ==
  /\ lastCall.op = "loadFeedbackEntries"
  /\ feedbackRaw.kind = "object"
  /\ lastCall.ret = <<>>

----------------------------------------------------------------------------
(* Both logs driven through their API by one tab, on storage that is empty
   or holds what earlier sessions of the tab left: a history log one short of
   its cap (the result of HISTORY_CAP - 1 calls of addHistory) and a feedback
   log one short of its cap whose entries name the items of that history *)

\* an item added in an earlier session; those sessions' ids and clock
\* readings are the negative numbers
EarlierItem(k) ==
  [id |-> 0 - k, createdAt |-> 0 - k, question |-> "Q1",
   categories |-> <<"glycemic-control">>, answer |-> "a1", evidence |-> <<12>>,
   evidenceCount |-> 1, outOfScope |-> FALSE,
   feedbackThumbs |-> "", feedbackComment |-> "", feedbackAt |-> NoTime]

\* the log after n calls of addHistory in earlier sessions, newest first
EarlierHistory(n) == StringifyArray([i \in 1..n |-> EarlierItem(i)])

\* the k-th newest entry recorded in an earlier session, naming the k-th
\* newest item added in one (an item that may have been evicted since)
EarlierJudgment(k) ==
  [id |-> 0 - (HISTORY_CAP + k), historyId |-> 0 - k, question |-> "Q1",
   thumbs |-> "up", comment |-> "", timestamp |-> 0 - k]

EarlierJudgments(n) == StringifyArray([i \in 1..n |-> EarlierJudgment(i)])

InitLogs ==
  /\ \/ historyRaw = Absent /\ feedbackRaw = Absent
     \/ /\ historyRaw = EarlierHistory(HISTORY_CAP - 1)
        /\ feedbackRaw = EarlierJudgments(FEEDBACK_CAP - 1)
  /\ quotaFull = FALSE
  /\ nextId = 1
  /\ clock = 1
  /\ lastCall = Call("none", <<>>, FALSE, <<>>)
  /\ hpOpen = FALSE
  /\ view = <<>>
  /\ tabPc = [t \in Tabs |-> "idle"]
  /\ tabLocal = [t \in Tabs |-> <<>>]
  /\ savedIds = {}
  /\ overlapped = {}
  /\ resultSlot = Absent
  /\ prefillSlot = ""
  /\ qpOpen = FALSE
  /\ nav = "idle"
  /\ navSub = 0
  /\ subs = 0
  /\ inflight = {}
  /\ page = InitialPage
  /\ pubLog = <<>>
  /\ slotPub = 0
  /\ consumed = <<>>
  /\ lost = {}

AddHistoryLogs == AddHistoryOf({"Q1"}, {AnswerInScope}, {NoCount}, MaxLogIds)

UpdateHistoryFeedbackLogs == UpdateHistoryFeedbackOf({"Q1"}, {JudgmentDown})

RecordFeedbackLogs == RecordFeedbackOf({"Q1"}, {JudgmentDown}, {NoTime}, MaxLogIds)

NextLogs ==
  \/ AddHistoryLogs
  \/ RemoveHistory
  \/ ClearHistory
  \/ UpdateHistoryFeedbackLogs
  \/ RecordFeedbackLogs

SpecLogs == InitLogs /\ [][NextLogs]_vars

(* C16: the two logs are independent. addHistory (evicting or not),
   removeHistory, clearHistory and updateHistoryFeedback leave the feedback
   log as it was, and recordFeedback (evicting or not) leaves the history
   log as it was; so every FeedbackEntry is still there, unmodified, after
   the item its historyId names was removed, cleared or evicted. *)
C16_LogsIndependent ==
  [][/\ lastCall'.op \in {"addHistory", "removeHistory", "clearHistory",
                          "updateHistoryFeedback"} =>
          /\ feedbackRaw' = feedbackRaw
          /\ loadFeedbackEntries(feedbackRaw') = loadFeedbackEntries(feedbackRaw)
     /\ lastCall'.op = "recordFeedback" =>
          /\ historyRaw' = historyRaw
          /\ loadHistory(historyRaw') = loadHistory(historyRaw)
    ]_vars

\* addHistory has evicted the item of id -49 from a full history log and the
\* feedback log still holds the entry that names it
C16_Witness ==
  /\ lastCall.op = "addHistory"
  /\ LET items == loadHistory(historyRaw)
         entries == loadFeedbackEntries(feedbackRaw)
     IN /\ Len(items) = HISTORY_CAP
        /\ items[HISTORY_CAP].id = 0 - 48
        /\ ~HasId(items, 0 - 49)
        /\ \E k \in 1..Len(entries) : entries[k] = EarlierJudgment(49)

\* recordFeedback has evicted the oldest entry of a full feedback log and the
\* history log holds its 49 items
C16_WitnessRecord ==
  /\ lastCall.op = "recordFeedback"
  /\ Len(loadFeedbackEntries(feedbackRaw)) = FEEDBACK_CAP
  /\ ~HasId(loadFeedbackEntries(feedbackRaw), 0 - (HISTORY_CAP + 99))
  /\ historyRaw = EarlierHistory(HISTORY_CAP - 1)

\* the item a stored entry names was removed
C16_WitnessRemoved ==
  /\ lastCall.op = "removeHistory"
  /\ LET items == loadHistory(historyRaw)
         entries == loadFeedbackEntries(feedbackRaw)
     IN /\ ~HasId(items, lastCall.arg[1])
        /\ \E k \in 1..Len(entries) : entries[k].historyId = lastCall.arg[1]

DistinctIds(items) ==
  Cardinality({items[i].id : i \in 1..Len(items)}) = Len(items)

(* C20: in every state one tab reaches through addHistory, removeHistory,
   clearHistory, updateHistoryFeedback and recordFeedback, the history log
   holds at most 50 items with pairwise distinct ids and the feedback log at
   most 100 entries with pairwise distinct ids. *)
C20_CapsAndDistinctIds ==
  /\ Len(loadHistory(historyRaw)) <= 50
  /\ DistinctIds(loadHistory(historyRaw))
  /\ Len(loadFeedbackEntries(feedbackRaw)) <= 100
  /\ DistinctIds(loadFeedbackEntries(feedbackRaw))

\* the history log is at its cap after an eviction and carries a patched
\* item, next to a feedback log of 99 entries
C20_Witness ==
  /\ nextId = MaxLogIds + 1
  /\ LET items == loadHistory(historyRaw)
     IN /\ Len(items) = 50
        /\ items[1].id = 2
        /\ items[2].id = 1
        /\ \E i \in 1..Len(items) : items[i].feedbackThumbs = "down"
  /\ Len(loadFeedbackEntries(feedbackRaw)) = 99

----------------------------------------------------------------------------
(* addHistory called with every shape of item its callers build, on a
   history key that is missing, corrupted, or one short of its cap *)

\* the caller passes no evidenceCount, or one that differs from the length of
\* the evidence
AddHistoryAny == AddHistoryOf({"Q1"}, Answers, {NoCount, 0, 3}, MaxAddIds)

NextAdd ==
  \/ AddHistoryAny
  \/ ForeignWrite

SpecAdd == InitLogs /\ [][NextAdd]_vars

(* C13: after addHistory(item), loadHistory()[0] (index 1 here) equals item
   in every field, except that evidenceCount is the length of item.evidence
   when the item came without one; a supplied evidenceCount is kept. *)
C13_AddLoadRoundTrip ==
  [][lastCall'.op = "addHistory" =>
       LET item == lastCall'.arg[1]
           loaded == loadHistory(historyRaw')
       IN /\ ~lastCall'.threw
          /\ Len(loaded) >= 1
          /\ \A f \in HistoryFields \ {"evidenceCount"} : loaded[1][f] = item[f]
          /\ DOMAIN loaded[1] = DOMAIN item
          /\ loaded[1].evidenceCount =
               (IF item.evidenceCount = NoCount THEN Len(item.evidence)
                ELSE item.evidenceCount)
     ]_vars

\* an item with one evidence record and an evidenceCount of 3 was added to a
\* log at its cap and is read back with the count 3
C13_Witness ==
  /\ lastCall.op = "addHistory"
  /\ lastCall.arg[1].evidenceCount = 3
  /\ Len(lastCall.arg[1].evidence) = 1
  /\ LET loaded == loadHistory(historyRaw)
     IN /\ Len(loaded) = HISTORY_CAP
        /\ loaded[1].id = lastCall.arg[1].id
        /\ loaded[1].evidenceCount = 3

\* an item without evidenceCount was added and is read back with the length
\* of its evidence
C13_WitnessFilled ==
  /\ lastCall.op = "addHistory"
  /\ lastCall.arg[1].evidenceCount = NoCount
  /\ Len(lastCall.arg[1].evidence) = 1
  /\ loadHistory(historyRaw)[1].evidenceCount = 1

----------------------------------------------------------------------------
(* Feedback given on the query page while another tab of the origin works on
   the shared history log: the page keeps showing a result whose HistoryItem
   the other tab may have removed or cleared, and followed by other items *)

\* the Save feedback button: feedbackChoice === "down" && handleRecordFeedback("down");
\* handleRecordFeedback returns at once when the page shows no result
SaveFeedbackClicked ==
  /\ qpOpen
  /\ page.result # <<>>
  /\ nextId <= MaxJudgeIds
  /\ \E j \in SavedJudgments :
       LET res == handleRecordFeedback(historyRaw, feedbackRaw, page.historyId,
                                       page.currentQuestion, j, nextId, clock, quotaFull)
       IN /\ historyRaw' = res.history
          /\ feedbackRaw' = res.feedback
          /\ lastCall' = Call("handleRecordFeedback",
                              <<page.historyId, page.currentQuestion, j>>, res.threw, res.ret)
  /\ nextId' = nextId + 1
  /\ clock' = clock + 1
  /\ UNCHANGED <<quotaFull, hpOpen, view, tabVars, pageVars>>

\* the thumbs-up button: setFeedbackChoice("up"); setFeedbackReason("") throws
\* ReferenceError (the name is declared nowhere) before handleRecordFeedback("up")
\* is reached, so nothing is recorded
ThumbsUpClicked ==
  /\ qpOpen
  /\ page.result # <<>>
  /\ lastCall' = Call("thumbsUp", <<page.historyId, page.currentQuestion>>, TRUE, <<>>)
  /\ UNCHANGED <<historyRaw, feedbackRaw, quotaFull, nextId, clock, hpOpen, view, tabVars,
                 pageVars>>

\* addHistory at the end of a submission in another tab
OtherTabAddHistory == AddHistoryOf({"Q2"}, {AnswerInScope}, {NoCount}, MaxJudgeIds)

NextJudge ==
  \/ OpenQueryPage
  \/ CloseQueryPage
  \/ Submit
  \/ \E r \in inflight : ActionForm(r)
  \/ \E r \in inflight : ActionResponseRerun(r)
  \/ NavIdle
  \/ SaveFeedbackClicked
  \/ ThumbsUpClicked
  \/ OtherTabAddHistory
  \/ RemoveHistory
  \/ ClearHistory

SpecJudge == Init /\ [][NextJudge]_vars

\* no item of the log has the id or the question the feedback call was given
NoItemMatches(items, hid, q) ==
  /\ ~(hid # NoId /\ HasId(items, hid))
  /\ ~HasQuestion(items, q)

(* C19: a correlation miss is ignored. When handleRecordFeedback runs for a
   result that no item of the history log matches, by id or by question, it
   adds exactly one entry to the feedback log and leaves every item of the
   history log as it was. *)
C19_MissIsIgnored ==
  [][lastCall'.op = "handleRecordFeedback"
       /\ NoItemMatches(loadHistory(historyRaw), lastCall'.arg[1], lastCall'.arg[2]) =>
          /\ Len(loadFeedbackEntries(feedbackRaw')) = Len(loadFeedbackEntries(feedbackRaw)) + 1
          /\ loadHistory(historyRaw') = loadHistory(historyRaw)
    ]_vars

\* the parts of C19 the code keeps: every call of handleRecordFeedback adds
\* exactly one entry to the feedback log, and on a miss the only item that
\* can change is the most recent one
C19_EntryRecordedFallbackToNewest ==
  [][lastCall'.op = "handleRecordFeedback" =>
       LET items == loadHistory(historyRaw)
           after == loadHistory(historyRaw')
       IN /\ Len(loadFeedbackEntries(feedbackRaw')) =
               Len(loadFeedbackEntries(feedbackRaw)) + 1
          /\ loadFeedbackEntries(feedbackRaw')[1] = lastCall'.ret[1]
          /\ Len(after) = Len(items)
          /\ NoItemMatches(items, lastCall'.arg[1], lastCall'.arg[2]) =>
               \A i \in 2..Len(items) : after[i] = items[i]
    ]_vars

----------------------------------------------------------------------------
(* The history page refreshed over both logs: items are added and judged
   (thumbs down, with a comment) on the query page, the history page is
   opened, and items are deleted or all cleared on it *)

AddHistoryJoin == AddHistoryOf(Questions, {AnswerInScope}, {NoCount}, MaxJoinIds)

GiveFeedbackJoin == GiveFeedbackOf(Questions, {[thumbs |-> "down", comment |-> "c"]}, MaxJoinIds)

NextJoin ==
  \/ AddHistoryJoin
  \/ GiveFeedbackJoin
  \/ OpenHistoryPage
  \/ CloseHistoryPage
  \/ DeleteClicked
  \/ ClearAllClicked

SpecJoin == Init /\ [][NextJoin]_vars

FeedbackFieldsOfItem == {"feedbackThumbs", "feedbackComment", "feedbackAt"}

(* C21: the join of the history page is pure. A refresh leaves both stored
   logs as they were, and after every refresh (on mount, after Delete, after
   Clear all) the view has the length, the order and the ids of the stored
   history log and differs from it only in the three feedback fields; Delete
   and Clear all leave the feedback log as it was. *)
C21_JoinIsPure ==
  [][lastCall'.op \in {"refresh", "removeHistory", "clearHistory"} /\ hpOpen' =>
       LET stored == loadHistory(historyRaw')
       IN /\ lastCall'.op = "refresh" => historyRaw' = historyRaw
          /\ feedbackRaw' = feedbackRaw
          /\ Len(view') = Len(stored)
          /\ \A i \in 1..Len(stored) :
               /\ view'[i].id = stored[i].id
               /\ \A f \in HistoryFields \ FeedbackFieldsOfItem :
                    view'[i][f] = stored[i][f]
     ]_vars

\* the page was opened on two stored items and shows, on the older one,
\* feedback fields that differ from the stored ones
C21_Witness ==
  /\ lastCall.op = "refresh"
  /\ hpOpen
  /\ LET stored == loadHistory(historyRaw)
     IN /\ Len(stored) = 2
        /\ Len(view) = 2
        /\ view[1] = stored[1]
        /\ view[2].id = stored[2].id
        /\ view[2].feedbackAt # stored[2].feedbackAt
        /\ loadFeedbackEntries(feedbackRaw) # <<>>

----------------------------------------------------------------------------
(* The empty question *)

\* the questions that consist of whitespace only
BlankQuestions == {"", " "}

(* C23: a submission whose question is empty after trimming whitespace
   publishes the failure outcome "Question is required" in the result slot;
   it issues no backend request (the submission ends at that step, it never
   reaches the fetch) and the history log is as before. *)
C23_EmptyQuestion ==
  [][\A r \in inflight :
       r.stage = "form" /\ r.question \in BlankQuestions /\ r \notin inflight' =>
         /\ pubLog' = Append(pubLog, Failure("Question is required"))
         /\ resultSlot' = StringifyResult(Failure("Question is required"))
         /\ lastCall'.op # "fetch"
         /\ \A s \in inflight' : s.n # r.n
         /\ historyRaw' = historyRaw
         /\ nextId' = nextId
     ]_vars

\* after an answered submission, a blank one has published its failure: the
\* history log still holds the one item of the first
C23_Witness ==
  /\ lastCall.op = "clientAction"
  /\ lastCall.arg = <<2, "empty">>
  /\ Len(pubLog) = 2
  /\ pubLog[1].ok
  /\ pubLog[2] = Failure("Question is required")
  /\ resultSlot = StringifyResult(pubLog[2])
  /\ inflight = {}
  /\ Len(loadHistory(historyRaw)) = 1

----------------------------------------------------------------------------
(* What the query page shows: the answer block is rendered under `result &&`,
   the error block under `error &&` *)

AnswerShown(pg) == pg.result # <<>>

\* an empty string is falsy
ErrorShown(pg) == pg.error # <<>> /\ pg.error[1] # ""

\* fetch ends with an answer, with a non-OK response whose body is a message
\* or is empty, or with a rejection
ResponsesShown ==
  { [kind |-> "ok", data |-> <<AnswerInScope>>, text |-> ""],
    [kind |-> "notOk", data |-> <<>>, text |-> "backend error"],
    [kind |-> "notOk", data |-> <<>>, text |-> ""],
    [kind |-> "throw", data |-> <<>>, text |-> "Failed to fetch"] }

ActionResponseShown(r) == ActionResponseOf(r, ResponsesShown)

NextShown ==
  \/ OpenQueryPage
  \/ CloseQueryPage
  \/ Submit
  \/ \E r \in inflight : ActionForm(r)
  \/ \E r \in inflight : ActionResponseShown(r)
  \/ NavIdle

SpecShown == Init /\ [][NextShown]_vars

(* C24: on the query page a consume that takes a success outcome sets the
   answer and clears the error, a consume that takes a failure outcome sets
   the error and clears the answer, and a consume that finds the slot empty
   leaves the answer and the error as they were; the page never shows the
   answer block and the error block together. *)
C24_AnswerOrError ==
  [][/\ ~(AnswerShown(page') /\ ErrorShown(page'))
     /\ IsConsume(lastCall') =>
          IF resultSlot.kind = "json"
          THEN LET o == resultSlot.val[1]
               IN IF o.ok
                  THEN /\ page'.result = o.data
                       /\ AnswerShown(page')
                       /\ page'.error = <<>>
                  ELSE /\ page'.error = <<o.error>>
                       /\ page'.result = <<>>
          ELSE /\ page'.result = page.result
               /\ page'.error = page.error
               /\ lastCall'.op = "readFromSession" => page' = page
     ]_vars

\* the page showed the error of a failed submission and then took the answer
\* of a second one: it shows the answer and no error
C24_Witness ==
  /\ lastCall.op = "readFromSession"
  /\ consumed = <<1, 2>>
  /\ ~pubLog[1].ok
  /\ pubLog[1].error = "backend error"
  /\ pubLog[2].ok
  /\ AnswerShown(page)
  /\ ~ErrorShown(page)
  /\ page.error = <<>>

\* the page showed an answer and then took a failure: the answer is gone
C24_WitnessFailure ==
  /\ lastCall.op = "readFromSession"
  /\ consumed = <<1, 2>>
  /\ pubLog[1].ok
  /\ ~pubLog[2].ok
  /\ ~AnswerShown(page)
  /\ ErrorShown(page)

\* the page mounted on a pending answer: its first consume took it, its
\* second found the slot empty and left the answer shown
C24_WitnessEmpty ==
  /\ lastCall.op = "mount"
  /\ lastCall.arg[1] = "json"
  /\ Len(lastCall.ret) = 1
  /\ AnswerShown(page)
  /\ ~ErrorShown(page)

============================================================================
